---- MODULE Spec2Model ----
(***************************************************************************)
(* Source/Core/arrayRemoveDuplicates.js                                    *)
(*                                                                         *)
(* arrayRemoveDuplicates(values, objectType, wrapAround) as a state        *)
(* machine: one action per statement group of the function, plus the two   *)
(* ways a caller composes calls (feeding the result back in, and calling   *)
(* again on the same array with wrapAround = true).                        *)
(*                                                                         *)
(* Arrays live in a heap and are named by reference, so that "returns the  *)
(* input array" and "mutates the input array" are observable.  An element  *)
(* is an object [v, id]: v is what objectType.equalsEpsilon looks at, id   *)
(* is the object's identity (objectType.clone keeps v and makes a new id). *)
(* objectType.equalsEpsilon(., ., removeDuplicatesEpsilon) is an arbitrary *)
(* reflexive symmetric relation `equal` on the v's, chosen with the input. *)
(***************************************************************************)
EXTENDS Integers, Sequences, FiniteSets, TLC

\* Longest input array.
MaxLen == 4
\* Number of calls of arrayRemoveDuplicates in one behaviour.
MaxCalls == 2

VARIABLES
    heap,           \* heap[r] = contents of the array with reference r
    values,         \* argument: array reference, or undefined
    objectType,     \* argument: the type object, or undefined
    equal,          \* objectType.equalsEpsilon at removeDuplicatesEpsilon, as a set of pairs of v's
    wrapAroundArg,  \* argument as passed: "undefined", "false" or "true"
    wrapAround,     \* local after defaultValue(wrapAround, false)
    length, i, v0, v1, cleanedvalues,   \* locals
    result,         \* returned array reference
    error,          \* message of the DeveloperError thrown, "" if none
    pc,             \* source line about to execute, "done" or "thrown"
    nextId,         \* identity of the next object clone creates
    input0,         \* history: contents of values when the call started
    heap0,          \* history: number of arrays when the call started
    eqCalls,        \* history: equalsEpsilon calls made by this call
    cloneLog,       \* history: clone calls of this call, [src |-> index in values, obj |-> new id]
    calls,          \* history: number of calls started
    prev            \* history: how this call was made and what the previous one returned

vars == <<heap, values, objectType, equal, wrapAroundArg, wrapAround, length, i, v0, v1,
          cleanedvalues, result, error, pc, nextId, input0, heap0, eqCalls, cloneLog,
          calls, prev>>

undefined == 0
TheType == 1
NoObject == [v |-> 0, id |-> 0]

defined(x) == x # undefined

defaultValue(a, b) == IF a = "undefined" THEN b ELSE a = "true"

\* objectType.equalsEpsilon(left, right, removeDuplicatesEpsilon)
equalsEpsilon(left, right) == <<left.v, right.v>> \in equal

\* objectType.clone(value)
clone(value) == [v |-> value.v, id |-> nextId]

\* values[k], 0-based as in the source
At(arr, k) == heap[arr][k + 1]

\* Array.prototype.slice(begin, end) : the copied contents
slice(arr, begin, end) == SubSeq(heap[arr], begin + 1, end)

RECURSIVE SeqMax(_)
SeqMax(s) == IF s = <<>> THEN 0
             ELSE LET m == SeqMax(Tail(s)) IN IF Head(s) > m THEN Head(s) ELSE m

\* The v's are opaque, so inputs are enumerated up to renaming: the first
\* element has v = 1 and each later element has a v already seen or the next
\* unused one.
IsCanonical(s) == \A k \in 1..Len(s) : s[k] <= SeqMax(SubSeq(s, 1, k - 1)) + 1

InputShapes == {s \in UNION {[1..n -> 1..MaxLen] : n \in 0..MaxLen} : IsCanonical(s)}

Objects(s) == [k \in 1..Len(s) |-> [v |-> s[k], id |-> k]]

\* Reflexive symmetric relations on 1..n
Relations(n) ==
    {{<<a, a>> : a \in 1..n} \cup p \cup {<<q[2], q[1]>> : q \in p} :
        p \in SUBSET {q \in (1..n) \X (1..n) : q[1] < q[2]}}

Init ==
    /\ \E s \in InputShapes :
        \/ /\ values = 1 /\ heap = <<Objects(s)>> /\ objectType = TheType
           /\ equal \in Relations(SeqMax(s))
        \/ /\ values = 1 /\ heap = <<Objects(s)>> /\ objectType = undefined
           /\ equal = {}
        \/ /\ s = <<>> /\ values = undefined /\ heap = <<>>
           /\ objectType \in {undefined, TheType} /\ equal = {}
    /\ wrapAroundArg \in {"undefined", "false", "true"}
    /\ wrapAround = FALSE
    /\ length = 0 /\ i = 0 /\ v0 = NoObject /\ v1 = NoObject
    /\ cleanedvalues = undefined /\ result = undefined
    /\ error = "" /\ pc = "l37"
    /\ nextId = (IF values = undefined THEN 0 ELSE Len(heap[1])) + 1
    /\ input0 = IF values = undefined THEN <<>> ELSE heap[1]
    /\ heap0 = Len(heap)
    /\ eqCalls = 0 /\ cloneLog = <<>> /\ calls = 1
    /\ prev = [how |-> "first", output |-> <<>>]

\* the locals and per-call history a statement leaves alone
Locals == <<length, i, v0, v1, cleanedvalues>>
Args == <<values, objectType, equal, wrapAroundArg>>
Caller == <<input0, heap0, calls, prev>>

\* lines 37-39
CheckValues ==
    /\ pc = "l37"
    /\ IF ~defined(values)
       THEN pc' = "thrown" /\ error' = "values is required."
       ELSE pc' = "l40" /\ UNCHANGED error
    /\ UNCHANGED <<heap, Args, wrapAround, Locals, result, nextId, Caller, eqCalls, cloneLog>>

\* lines 40-42 with the check left out
CheckObjectType_skipped ==
    /\ pc = "l40"
    /\ pc' = "l45"
    /\ UNCHANGED <<heap, Args, wrapAround, Locals, result, error, nextId, Caller, eqCalls, cloneLog>>

\* lines 40-42
CheckObjectType ==
    /\ pc = "l40"
    /\ IF ~defined(objectType)
       THEN pc' = "thrown" /\ error' = "objectType is required."
       ELSE pc' = "l45" /\ UNCHANGED error
    /\ UNCHANGED <<heap, Args, wrapAround, Locals, result, nextId, Caller, eqCalls, cloneLog>>

\* lines 45-50 returning a copy for short arrays
LengthCheck_copies ==
    /\ pc = "l45"
    /\ wrapAround' = defaultValue(wrapAroundArg, FALSE)
    /\ length' = Len(heap[values])
    /\ IF length' < 2
       THEN /\ heap' = Append(heap, slice(values, 0, length'))
            /\ result' = Len(heap) + 1 /\ pc' = "done" /\ UNCHANGED i
       ELSE result' = result /\ i' = 1 /\ pc' = "l56" /\ UNCHANGED heap
    /\ UNCHANGED <<Args, v0, v1, cleanedvalues, error, nextId, Caller, eqCalls, cloneLog>>

\* lines 45-50 (and the loop initialisation i = 1 of line 56)
LengthCheck ==
    /\ pc = "l45"
    /\ wrapAround' = defaultValue(wrapAroundArg, FALSE)
    /\ length' = Len(heap[values])
    /\ IF length' < 2
       THEN result' = values /\ pc' = "done" /\ UNCHANGED i
       ELSE result' = result /\ i' = 1 /\ pc' = "l56"
    /\ UNCHANGED <<heap, Args, v0, v1, cleanedvalues, error, nextId, Caller, eqCalls, cloneLog>>

\* lines 56-62, one iteration of the first loop
FirstLoop ==
    /\ pc = "l56" /\ i < length
    /\ v0' = At(values, i - 1)
    /\ v1' = At(values, i)
    /\ eqCalls' = eqCalls + 1
    /\ IF equalsEpsilon(v0', v1')
       THEN i' = i /\ pc' = "l64"
       ELSE i' = i + 1 /\ pc' = IF i + 1 < length THEN "l56" ELSE "l64"
    /\ UNCHANGED <<heap, Args, wrapAround, length, cleanedvalues, result, error, nextId,
                   Caller, cloneLog>>

\* lines 64-69 removing the last element instead of the first
NoDuplicate_dropsLast ==
    /\ pc = "l64" /\ i = length
    /\ eqCalls' = IF wrapAround THEN eqCalls + 1 ELSE eqCalls
    /\ IF wrapAround /\ equalsEpsilon(At(values, 0), At(values, Len(heap[values]) - 1))
       THEN /\ heap' = Append(heap, slice(values, 0, Len(heap[values]) - 1))
            /\ result' = Len(heap) + 1
       ELSE /\ result' = values
            /\ UNCHANGED heap
    /\ pc' = "done"
    /\ UNCHANGED <<Args, wrapAround, Locals, error, nextId, Caller, cloneLog>>

\* lines 64-69 with values.shift() in place of values.slice(1)
NoDuplicate_shiftsInput ==
    /\ pc = "l64" /\ i = length
    /\ eqCalls' = IF wrapAround THEN eqCalls + 1 ELSE eqCalls
    /\ IF wrapAround /\ equalsEpsilon(At(values, 0), At(values, Len(heap[values]) - 1))
       THEN heap' = [heap EXCEPT ![values] = Tail(@)]
       ELSE UNCHANGED heap
    /\ result' = values
    /\ pc' = "done"
    /\ UNCHANGED <<Args, wrapAround, Locals, error, nextId, Caller, cloneLog>>

\* lines 64-69: the first loop ran to the end, no adjacent duplicate
NoDuplicate ==
    /\ pc = "l64" /\ i = length
    /\ eqCalls' = IF wrapAround THEN eqCalls + 1 ELSE eqCalls
    /\ IF wrapAround /\ equalsEpsilon(At(values, 0), At(values, Len(heap[values]) - 1))
       THEN /\ heap' = Append(heap, slice(values, 1, Len(heap[values])))
            /\ result' = Len(heap) + 1
       ELSE /\ result' = values
            /\ UNCHANGED heap
    /\ pc' = "done"
    /\ UNCHANGED <<Args, wrapAround, Locals, error, nextId, Caller, cloneLog>>

\* line 71
StartClean ==
    /\ pc = "l64" /\ i # length
    /\ heap' = Append(heap, slice(values, 0, i))
    /\ cleanedvalues' = Len(heap) + 1
    /\ pc' = "l72"
    /\ UNCHANGED <<Args, wrapAround, length, i, v0, v1, result, error, nextId, Caller,
                   eqCalls, cloneLog>>

\* lines 72-79 without the update of v0 at line 77
SecondLoop_keepsV0 ==
    /\ pc = "l72" /\ i < length
    /\ v1' = At(values, i)
    /\ eqCalls' = eqCalls + 1
    /\ IF ~equalsEpsilon(v0, v1')
       THEN /\ heap' = [heap EXCEPT ![cleanedvalues] = Append(@, clone(v1'))]
            /\ cloneLog' = Append(cloneLog, [src |-> i, obj |-> nextId])
            /\ nextId' = nextId + 1
            /\ v0' = v0
       ELSE UNCHANGED <<heap, cloneLog, nextId, v0>>
    /\ i' = i + 1
    /\ pc' = IF i + 1 < length THEN "l72" ELSE "l81"
    /\ UNCHANGED <<Args, wrapAround, length, cleanedvalues, result, error, Caller>>

\* lines 72-79 comparing v1 with its predecessor values[i - 1] instead of v0
SecondLoop_predecessor ==
    /\ pc = "l72" /\ i < length
    /\ v1' = At(values, i)
    /\ eqCalls' = eqCalls + 1
    /\ IF ~equalsEpsilon(At(values, i - 1), v1')
       THEN /\ heap' = [heap EXCEPT ![cleanedvalues] = Append(@, clone(v1'))]
            /\ cloneLog' = Append(cloneLog, [src |-> i, obj |-> nextId])
            /\ nextId' = nextId + 1
            /\ v0' = v1'
       ELSE UNCHANGED <<heap, cloneLog, nextId, v0>>
    /\ i' = i + 1
    /\ pc' = IF i + 1 < length THEN "l72" ELSE "l81"
    /\ UNCHANGED <<Args, wrapAround, length, cleanedvalues, result, error, Caller>>

\* lines 72-79 pushing v1 itself instead of objectType.clone(v1)
SecondLoop_noClone ==
    /\ pc = "l72" /\ i < length
    /\ v1' = At(values, i)
    /\ eqCalls' = eqCalls + 1
    /\ IF ~equalsEpsilon(v0, v1')
       THEN /\ heap' = [heap EXCEPT ![cleanedvalues] = Append(@, v1')]
            /\ v0' = v1'
       ELSE UNCHANGED <<heap, v0>>
    /\ UNCHANGED <<cloneLog, nextId>>
    /\ i' = i + 1
    /\ pc' = IF i + 1 < length THEN "l72" ELSE "l81"
    /\ UNCHANGED <<Args, wrapAround, length, cleanedvalues, result, error, Caller>>

\* lines 72-79, one iteration of the second loop
SecondLoop ==
    /\ pc = "l72" /\ i < length
    /\ v1' = At(values, i)
    /\ eqCalls' = eqCalls + 1
    /\ IF ~equalsEpsilon(v0, v1')
       THEN /\ heap' = [heap EXCEPT ![cleanedvalues] = Append(@, clone(v1'))]
            /\ cloneLog' = Append(cloneLog, [src |-> i, obj |-> nextId])
            /\ nextId' = nextId + 1
            /\ v0' = v1'
       ELSE UNCHANGED <<heap, cloneLog, nextId, v0>>
    /\ i' = i + 1
    /\ pc' = IF i + 1 < length THEN "l72" ELSE "l81"
    /\ UNCHANGED <<Args, wrapAround, length, cleanedvalues, result, error, Caller>>

\* lines 81-85 without the shift
WrapCheck_noShift ==
    /\ pc = "l81"
    /\ eqCalls' = IF wrapAround /\ Len(heap[cleanedvalues]) > 1 THEN eqCalls + 1 ELSE eqCalls
    /\ UNCHANGED heap
    /\ result' = cleanedvalues
    /\ pc' = "done"
    /\ UNCHANGED <<Args, wrapAround, Locals, error, nextId, Caller, cloneLog>>

\* lines 81-85
WrapCheck ==
    /\ pc = "l81"
    /\ eqCalls' = IF wrapAround /\ Len(heap[cleanedvalues]) > 1 THEN eqCalls + 1 ELSE eqCalls
    /\ IF /\ wrapAround
          /\ Len(heap[cleanedvalues]) > 1
          /\ equalsEpsilon(At(cleanedvalues, 0), At(cleanedvalues, Len(heap[cleanedvalues]) - 1))
       THEN heap' = [heap EXCEPT ![cleanedvalues] = Tail(@)]
       ELSE UNCHANGED heap
    /\ result' = cleanedvalues
    /\ pc' = "done"
    /\ UNCHANGED <<Args, wrapAround, Locals, error, nextId, Caller, cloneLog>>

\* a fresh activation of the function on the array arr
Enter(arr, how) ==
    /\ values' = arr
    /\ wrapAround' = FALSE
    /\ length' = 0 /\ i' = 0 /\ v0' = NoObject /\ v1' = NoObject
    /\ cleanedvalues' = undefined /\ result' = undefined
    /\ error' = "" /\ pc' = "l37"
    /\ input0' = heap[arr]
    /\ heap0' = Len(heap)
    /\ eqCalls' = 0 /\ cloneLog' = <<>>
    /\ calls' = calls + 1
    /\ prev' = [how |-> how, output |-> heap[result]]
    /\ UNCHANGED <<heap, objectType, equal, nextId>>

\* the caller passes the returned array back in, wrapAround as before:
\* arrayRemoveDuplicates(arrayRemoveDuplicates(values, T, w), T, w)
Reapply ==
    /\ pc = "done" /\ calls < MaxCalls
    /\ Enter(result, "reapply")
    /\ UNCHANGED wrapAroundArg

\* after a call without wrapAround the caller calls again on the same array
\* with wrapAround = true
CallWrapped ==
    /\ pc = "done" /\ calls < MaxCalls /\ ~wrapAround
    /\ Enter(values, "wrapped")
    /\ wrapAroundArg' = "true"

Next ==
    \/ CheckValues
    \/ CheckObjectType
    \/ LengthCheck
    \/ FirstLoop
    \/ NoDuplicate
    \/ StartClean
    \/ SecondLoop
    \/ WrapCheck
    \/ Reapply
    \/ CallWrapped

Spec == Init /\ [][Next]_vars

----------------------------------------------------------------------------
(* Vocabulary of the properties *)

\* the array the call returned
Output == heap[result]

Returned == pc = "done"

\* the returned array was built by this call
NewlyBuilt == Returned /\ result # values

Vals(s) == [k \in 1..Len(s) |-> s[k].v]

Last(s) == s[Len(s)]

\* equalsEpsilon happens to be transitive on the input's values
Transitive == \A p \in equal : \A q \in equal : p[2] = q[1] => <<p[1], q[2]>> \in equal

NoAdjacentDuplicate(s) == \A k \in 1..(Len(s) - 1) : ~equalsEpsilon(s[k], s[k + 1])

\* 0-based index of the first element equal to its predecessor, Len(s) if none
FirstDuplicate(s) ==
    IF NoAdjacentDuplicate(s) THEN Len(s)
    ELSE (CHOOSE k \in 1..(Len(s) - 1) :
              /\ equalsEpsilon(s[k], s[k + 1])
              /\ \A j \in 1..(k - 1) : ~equalsEpsilon(s[j], s[j + 1]))

CloneCalls == {cloneLog[k] : k \in 1..Len(cloneLog)}

\* 1-based input position an output element comes from (0 if none)
Origin(e) ==
    IF \E p \in 1..Len(input0) : input0[p] = e
    THEN CHOOSE p \in 1..Len(input0) : input0[p] = e
    ELSE IF \E c \in CloneCalls : c.obj = e.id
         THEN (CHOOSE c \in CloneCalls : c.obj = e.id).src + 1
         ELSE 0

\* input0[a..b] is a maximal run in which each element equals its predecessor
MaximalRun(a, b) ==
    /\ 1 <= a /\ a < b /\ b <= Len(input0)
    /\ \A j \in (a + 1)..b : equalsEpsilon(input0[j - 1], input0[j])
    /\ a = 1 \/ ~equalsEpsilon(input0[a - 1], input0[a])
    /\ b = Len(input0) \/ ~equalsEpsilon(input0[b], input0[b + 1])

KeptOf(a, b) == {k \in 1..Len(Output) : Origin(Output[k]) \in a..b}

\* the reference scan: keep s[1], then keep an element iff it does not equal
\* the most recently kept one
RECURSIVE GreedyScan(_, _, _)
GreedyScan(s, k, kept) ==
    IF k > Len(s) THEN kept
    ELSE IF equalsEpsilon(Last(kept), s[k])
         THEN GreedyScan(s, k + 1, kept)
         ELSE GreedyScan(s, k + 1, Append(kept, s[k]))

Greedy(s) == GreedyScan(s, 2, <<s[1]>>)

----------------------------------------------------------------------------
\* C1: whenever the call returns a newly built array, no two adjacent
\* elements of it compare equal under equalsEpsilon (either wrapAround, any
\* reflexive symmetric relation).
C1_NoAdjacentDuplicates == NewlyBuilt => NoAdjacentDuplicate(Output)

C1_Witness ==
    /\ NewlyBuilt /\ ~Transitive
    /\ Len(Output) >= 3 /\ Len(Output) < Len(input0)

\* C2 as stated: with wrapAround, a newly built output of at least two
\* elements never has its first and last elements equal.
C2_FirstLastDistinct_Original ==
    (NewlyBuilt /\ wrapAround /\ Len(Output) >= 2)
        => ~equalsEpsilon(Output[1], Last(Output))

\* C2 amended: with wrapAround, a newly built output of at least two elements
\* has first and last elements that do not compare equal, provided
\* equalsEpsilon is transitive or the output still starts with values[0]
\* (no leading element was removed).
C2_FirstLastDistinct ==
    (NewlyBuilt /\ wrapAround /\ Len(Output) >= 2 /\ (Transitive \/ Output[1] = input0[1]))
        => ~equalsEpsilon(Output[1], Last(Output))

C2_Witness ==
    /\ NewlyBuilt /\ wrapAround /\ Len(Output) >= 2
    /\ Transitive /\ Output[1] # input0[1]
    /\ cleanedvalues # undefined

\* C3 as stated: applying the function to its own result, wrapAround held
\* constant, returns the same sequence of element values.
C3_Idempotent_Original ==
    (Returned /\ prev.how = "reapply") => Vals(Output) = Vals(input0)

\* C3 amended: applying the function to its own result, wrapAround held
\* constant, returns the same sequence of element values when wrapAround is
\* false or equalsEpsilon is transitive.
C3_Idempotent ==
    (Returned /\ prev.how = "reapply" /\ (~wrapAround \/ Transitive))
        => Vals(Output) = Vals(input0)

C3_Witness ==
    /\ Returned /\ prev.how = "reapply"
    /\ wrapAround /\ Transitive
    /\ Len(input0) >= 2 /\ heap0 >= 2

\* C4 as stated: without wrapAround, of every maximal run of k >= 2 elements
\* each equal to its predecessor exactly one element is in the output.
C4_RunCollapses_Original ==
    (Returned /\ ~wrapAround)
        => \A a \in 1..Len(input0) : \A b \in 1..Len(input0) :
               MaximalRun(a, b) => Cardinality(KeptOf(a, b)) = 1

\* C4 amended: without wrapAround and with a transitive equalsEpsilon, of
\* every maximal run of k >= 2 elements each equal to its predecessor exactly
\* one element is in the output.
C4_RunCollapses ==
    (Returned /\ ~wrapAround /\ Transitive)
        => \A a \in 1..Len(input0) : \A b \in 1..Len(input0) :
               MaximalRun(a, b) => Cardinality(KeptOf(a, b)) = 1

C4_Witness ==
    /\ Returned /\ ~wrapAround /\ Transitive
    /\ \E a \in 2..Len(input0) : \E b \in 1..Len(input0) :
           MaximalRun(a, b) /\ b >= a + 1 /\ KeptOf(a, b) # {}

C6_Passthrough ==
    (/\ Returned
     /\ \/ Len(input0) < 2
        \/ /\ NoAdjacentDuplicate(input0)
           /\ ~wrapAround \/ ~equalsEpsilon(input0[1], Last(input0)))
        => /\ result = values
           /\ Len(heap) = heap0
           /\ cloneLog = <<>>

C6_Witness ==
    /\ Returned /\ wrapAround
    /\ Len(input0) >= 3 /\ NoAdjacentDuplicate(input0)
    /\ ~equalsEpsilon(input0[1], Last(input0))
    /\ result = values

\* C7: a missing values fails with 'values is required.', a missing
\* objectType (values present) with 'objectType is required.', in both cases
\* before any equalsEpsilon or clone call and before any array is built; no
\* call with both arguments present fails.
C7_ArgumentErrors ==
    /\ pc = "thrown" =>
          /\ ~defined(values) \/ ~defined(objectType)
          /\ eqCalls = 0 /\ cloneLog = <<>> /\ Len(heap) = heap0
          /\ result = undefined
    /\ (~defined(values) /\ pc # "l37") =>
          pc = "thrown" /\ error = "values is required."
    /\ (defined(values) /\ ~defined(objectType) /\ pc \notin {"l37", "l40"}) =>
          pc = "thrown" /\ error = "objectType is required."
    /\ pc # "thrown" => error = ""

C7_Witness ==
    /\ pc = "thrown" /\ error = "objectType is required."
    /\ defined(values) /\ Len(input0) >= 2

\* C8: on every path the caller's array holds what it held when the call
\* started.
C8_InputUnchanged == defined(values) => heap[values] = input0

C8_Witness ==
    /\ NewlyBuilt /\ wrapAround
    /\ Output[1] # input0[1]
    /\ Len(heap[values]) = Len(Output) + 1
    /\ heap[values] = input0

\* C9: without wrapAround and for a non-empty input, the output's values are
\* those of the reference greedy scan, and the output is an order-preserving
\* subsequence of the input starting with values[0].
C9_GreedyScan ==
    (Returned /\ ~wrapAround /\ Len(input0) >= 1)
        => /\ Vals(Output) = Vals(Greedy(input0))
           /\ Origin(Output[1]) = 1
           /\ \A k \in 1..(Len(Output) - 1) :
                  /\ Origin(Output[k]) >= 1
                  /\ Origin(Output[k]) < Origin(Output[k + 1])
           /\ \A k \in 1..Len(Output) : Output[k].v = input0[Origin(Output[k])].v

C9_Witness ==
    /\ Returned /\ ~wrapAround /\ ~Transitive
    /\ Len(Output) >= 2 /\ Len(Output) < Len(input0)
    /\ \E k \in 2..Len(Output) :
           equalsEpsilon(input0[Origin(Output[k]) - 1], Output[k])

\* C10: with the first adjacent duplicate at index d, an output element from
\* a position below d is the input object itself, an output element from a
\* position at or above d is the product of exactly one clone call, clone is
\* never called on a dropped element, and without an adjacent duplicate
\* clone is never called.
C10_AliasThenClone ==
    Returned =>
        LET d == FirstDuplicate(input0) IN
        /\ \A k \in 1..Len(Output) :
              \/ \E p \in 1..d : Output[k] = input0[p]
              \/ /\ \A p \in 1..Len(input0) : Output[k].id # input0[p].id
                 /\ Cardinality({n \in 1..Len(cloneLog) : cloneLog[n].obj = Output[k].id}) = 1
                 /\ Origin(Output[k]) > d
                 /\ Output[k].v = input0[Origin(Output[k])].v
        /\ \A n \in 1..Len(cloneLog) :
              /\ \E k \in 1..Len(Output) : Output[k].id = cloneLog[n].obj
              /\ \A m \in 1..Len(cloneLog) : cloneLog[m].src = cloneLog[n].src => m = n
        /\ d = Len(input0) => cloneLog = <<>>

C10_Witness ==
    /\ Returned /\ wrapAround
    /\ FirstDuplicate(input0) >= 2
    /\ Len(cloneLog) >= 1
    /\ Output[1] # input0[1]
    /\ \E p \in 1..Len(input0) : Output[1] = input0[p]
====
